---- MODULE Spec2Model ----
(***************************************************************************)
(* FLOWSS: flow-rate / exposure-time / sample-volume calculator with a     *)
(* three-tier attenuator fallback (flowss.py) and its historical           *)
(* fixed-geometry form (frdss.py).                                         *)
(*                                                                         *)
(* Numbers are rationals <<n, d>> in lowest terms with d > 0.  Python      *)
(* floats are modelled as binary floating-point numbers with a Prec-bit    *)
(* significand, unbounded exponent and round-to-nearest-even after every   *)
(* operation (arith = "float"); arith = "exact" switches the rounding off  *)
(* and evaluates the same expressions over the rationals.                  *)
(***************************************************************************)
EXTENDS Integers, Sequences, FiniteSets, TLC

VARIABLES arith, prog, argv, filename, file, pc, err,
          A, B, C, D, E, F,
          illuminatedvolume, idx,
          flowratevalues, timevalues, volumevalues, attenuation,
          data, dosetxt, stdout

vars == <<arith, prog, argv, filename, file, pc, err, A, B, C, D, E, F,
          illuminatedvolume, idx, flowratevalues, timevalues, volumevalues,
          attenuation, data, dosetxt, stdout>>

(* ---------------------------- bounds ----------------------------------- *)
Prec == 3
MaxDoses == 2

(* ------------------------ rational arithmetic -------------------------- *)
Abs(n) == IF n < 0 THEN -n ELSE n

RECURSIVE GCD(_, _)
GCD(a, b) == IF b = 0 THEN a ELSE GCD(b, a % b)

Q(n, d) ==
    LET g == GCD(Abs(n), Abs(d))
        s == IF d < 0 THEN -1 ELSE 1
    IN  <<(s * n) \div g, (s * d) \div g>>

QNeg(a) == <<-a[1], a[2]>>
QMul(a, b) == Q(a[1] * b[1], a[2] * b[2])
QDiv(a, b) == Q(a[1] * b[2], a[2] * b[1])
QAdd(a, b) == Q(a[1] * b[2] + b[1] * a[2], a[2] * b[2])
QGreater(a, b) == a[1] * b[2] > b[1] * a[2]
QLeq(a, b) == ~QGreater(a, b)

(* nearest integer to n/d (n >= 0, d > 0), ties to the even integer *)
RoundHalfEven(n, d) ==
    LET f == n \div d
        r2 == 2 * (n - f * d)
    IN  IF r2 > d \/ (r2 = d /\ f % 2 = 1) THEN f + 1 ELSE f

(* nearest Prec-bit binary float to n/d > 0 *)
RECURSIVE RoundPos(_, _)
RoundPos(n, d) ==
    IF n >= d * 2^Prec THEN QMul(<<2, 1>>, RoundPos(n, 2 * d))
    ELSE IF n < d * 2^(Prec - 1) THEN QDiv(RoundPos(2 * n, d), <<2, 1>>)
    ELSE <<RoundHalfEven(n, d), 1>>

(* the float nearest to a rational; the identity in exact arithmetic *)
Fl(q) ==
    IF arith = "exact" \/ q[1] = 0 THEN q
    ELSE IF q[1] < 0 THEN QNeg(RoundPos(-q[1], q[2]))
    ELSE RoundPos(q[1], q[2])

PyMul(a, b) == Fl(QMul(a, b))
PyDiv(a, b) == Fl(QDiv(a, b))
PyAdd(a, b) == Fl(QAdd(a, b))

(* sum(values): left fold of + starting from 0 *)
RECURSIVE SumFrom(_, _, _)
SumFrom(acc, values, i) ==
    IF i > Len(values) THEN acc ELSE SumFrom(PyAdd(acc, values[i]), values, i + 1)

PySum(values) == SumFrom(<<0, 1>>, values, 1)

(* int(x): the integer part of x, discarding the fraction *)
PyIntFloor(x) == x[1] \div x[2]
PyInt(x) == IF x[1] >= 0 THEN x[1] \div x[2] ELSE -((-x[1]) \div x[2])

(* "%.3f" % x, as a count of thousandths *)
Fmt3(x) ==
    IF x[1] >= 0 THEN RoundHalfEven(x[1] * 1000, x[2])
    ELSE -RoundHalfEven((-x[1]) * 1000, x[2])

(* ------------------------------ inputs --------------------------------- *)
(* decimal values as typed on the command line or in the parameter file *)
DoseTokens == {<<1, 1>>, <<5, 1>>, <<-3, 1>>}
DoseRateTokens == {<<7, 1>>, <<8, 1>>}
SnrTokens == {<<10, 1>>, <<8, 1>>}
LimitTokens == {<<3, 1>>, <<4, 1>>}
BeamChoices == {<< <<1, 1>>, <<1, 1>>, <<1, 1>> >>,
                << <<1, 2>>, <<1, 2>>, <<1, 2>> >>}
AttenuatorChoices == {<< <<1, 10>>, <<1, 100>> >>,
                      << <<1, 2>>, <<1, 4>> >>,
                      << <<1, 10>> >>,
                      << <<1, 10>>, <<1, 100>>, <<1, 1000>> >>}

DoseLists == UNION {[1..n -> DoseTokens] : n \in 1..MaxDoses}

ParamSets ==
    [sampledoses : DoseLists,
     doserate : {<<r>> : r \in DoseRateTokens},
     snr : {<<s>> : s \in SnrTokens},
     volumelimit : {<<l>> : l \in LimitTokens},
     beamdimensions : BeamChoices,
     attenuators : AttenuatorChoices]

(* the arguments frdss.py knows: no geometry, no attenuators *)
FrParamSets ==
    [sampledoses : DoseLists,
     doserate : {<<r>> : r \in DoseRateTokens} \cup {<< <<7, 1>>, <<8, 1>> >>},
     snr : {<<s>> : s \in SnrTokens},
     volumelimit : {<<l>> : l \in LimitTokens},
     beamdimensions : {<<>>},
     attenuators : {<<>>}]

(* the command line used together with --filename *)
OtherArgs ==
    [sampledoses |-> << <<5, 1>> >>, doserate |-> << <<7, 1>> >>,
     snr |-> << <<8, 1>> >>, volumelimit |-> << <<4, 1>> >>,
     beamdimensions |-> << <<1, 1>>, <<1, 1>>, <<1, 1>> >>,
     attenuators |-> << <<1, 10>>, <<1, 100>> >>]

Num(v) == [numeric |-> TRUE, val |-> v]
NotANumber == [numeric |-> FALSE, val |-> <<0, 1>>]

Line(values) == [i \in 1..Len(values) |-> Num(values[i])]

(* the six-line parameter file that carries a parameter set *)
FileOf(p) ==
    <<Line(p.sampledoses), Line(p.doserate), Line(p.snr),
      Line(p.volumelimit), Line(p.beamdimensions), Line(p.attenuators)>>

FileKinds == {"sixLines", "fiveLines", "sevenLines", "nonNumeric",
              "twoDoseRates", "fourBeamDims", "twoBeamDims"}

FileVariant(p, kind) ==
    LET f == FileOf(p) IN
    CASE kind = "sixLines" -> f
      [] kind = "fiveLines" -> SubSeq(f, 1, 5)
      [] kind = "sevenLines" -> Append(f, <<Num(<<1, 1>>)>>)
      [] kind = "nonNumeric" -> [f EXCEPT ![3] = <<NotANumber>>]
      [] kind = "twoDoseRates" -> [f EXCEPT ![2] = Append(@, Num(<<8, 1>>))]
      [] kind = "fourBeamDims" -> [f EXCEPT ![5] = Append(@, Num(<<5, 1>>))]
      [] kind = "twoBeamDims" -> [f EXCEPT ![5] = SubSeq(@, 1, 2)]

(* ------------------------- flowss.py: loading --------------------------- *)
(* np.array of the floats argparse (type=float) or float(x) produced *)
FloatArray(values) == [i \in 1..Len(values) |-> Fl(values[i])]

AllNumeric(lines) ==
    \A i \in 1..Len(lines) : \A j \in 1..Len(lines[i]) : lines[i][j].numeric

(* content: one list of floats per line of the file *)
Content(lines) ==
    [i \in 1..Len(lines) |-> [j \in 1..Len(lines[i]) |-> Fl(lines[i][j].val)]]

(* ----------------------- flowss.py: dosetable --------------------------- *)
(* flowrate = rate * illuminatedvolume / sampledose *)
FlowRate(rate, illum, sampledose) == PyDiv(PyMul(rate, illum), sampledose)

(* time = (snr * flowrate) / (rate * illuminatedvolume) *)
ExposureTimeNoGeometry(snr, flowrate, rate, illum) ==
    PyDiv(PyMul(snr, flowrate), rate)
ExposureTime(snr, flowrate, rate, illum) ==
    PyDiv(PyMul(snr, flowrate), PyMul(rate, illum))

(* volume = time * flowrate *)
VolumeFromTimeOnly(time, flowrate) == PyMul(time, time)
Volume(time, flowrate) == PyMul(time, flowrate)

(* volume > volumelimit *)
ExceedsOrEqual(volume, volumelimit) == ~QGreater(volumelimit, volume)
Exceeds(volume, volumelimit) == QGreater(volume, volumelimit)

(* doserate*attenuators[0] *)
Tier1Rate(doserate, attenuators) == PyMul(doserate, attenuators[1])

(* the position of attenuators[1], counted from 1 *)
Tier2IndexClamped(attenuators) ==
    IF Len(attenuators) < 2 THEN Len(attenuators) ELSE 2
Tier2Index(attenuators) == 2

(* doserate*attenuators[1] *)
Tier2RateCompounded(doserate, attenuators) ==
    PyMul(PyMul(doserate, attenuators[1]), attenuators[Tier2Index(attenuators)])
Tier2Rate(doserate, attenuators) ==
    PyMul(doserate, attenuators[Tier2Index(attenuators)])

Result(ok, flowrate, time, volume, attenuator) ==
    [ok |-> ok, flowrate |-> flowrate, time |-> time, volume |-> volume,
     attenuator |-> attenuator]

IndexError == Result(FALSE, <<0, 1>>, <<0, 1>>, <<0, 1>>, 0)

(* one pass of the loop body: what is appended for sampledose, or the
   IndexError of attenuators[1] *)
DoseRow(sampledose, doserate, snr, volumelimit, illum, attenuators) ==
    LET flowrate0 == FlowRate(doserate, illum, sampledose)
        time0 == ExposureTime(snr, flowrate0, doserate, illum)
        volume0 == Volume(time0, flowrate0)
        rate1 == Tier1Rate(doserate, attenuators)
        flowrate1 == FlowRate(rate1, illum, sampledose)
        time1 == ExposureTime(snr, flowrate1, rate1, illum)
        volume1 == Volume(time1, flowrate1)
        rate2 == Tier2Rate(doserate, attenuators)
        flowrate2 == FlowRate(rate2, illum, sampledose)
        time2 == ExposureTime(snr, flowrate2, rate2, illum)
        volume2 == Volume(time2, flowrate2)
    IN  IF Exceeds(volume0, volumelimit)
        THEN IF Exceeds(volume1, volumelimit)
             THEN IF Tier2Index(attenuators) > Len(attenuators)
                  THEN IndexError
                  ELSE Result(TRUE, flowrate2, time2, volume2, 2)
             ELSE Result(TRUE, flowrate1, time1, volume1, 1)
        ELSE Result(TRUE, flowrate0, time0, volume0, 0)

(* beamdimensions[0]*beamdimensions[1]*beamdimensions[2] *)
IlluminatedVolume(beamdimensions) ==
    PyMul(PyMul(beamdimensions[1], beamdimensions[2]), beamdimensions[3])

(* data: one tuple per index of doselist *)
BuildDataReversed(doselist, flowrates, volumes, times, attenuators) ==
    [i \in 1..Len(doselist) |->
        <<doselist[i], flowrates[Len(doselist) + 1 - i], volumes[Len(doselist) + 1 - i],
          times[Len(doselist) + 1 - i], attenuators[Len(doselist) + 1 - i]>>]
BuildData(doselist, flowrates, volumes, times, attenuators) ==
    [i \in 1..Len(doselist) |->
        <<doselist[i], flowrates[i], volumes[i], times[i], attenuators[i]>>]

(* np.savetxt(..., fmt="%.3f"): every column of every row with 3 decimals *)
SaveTxt(rows) ==
    [i \in 1..Len(rows) |->
        <<Fmt3(rows[i][1]), Fmt3(rows[i][2]), Fmt3(rows[i][3]), Fmt3(rows[i][4]),
          Fmt3(<<rows[i][5], 1>>)>>]

(* the four summary lines *)
Summary(snr, volumelimit, volumes, times) ==
    [snr |-> PyInt(snr), volumelimit |-> PyInt(volumelimit),
     totalvolume |-> PyInt(PySum(volumes)), totaltime |-> PyInt(PySum(times))]

NoSummary == [snr |-> 0, volumelimit |-> 0, totalvolume |-> 0, totaltime |-> 0]
NoFile == [written |-> FALSE, rows |-> <<>>]
NoOutput == [table |-> FALSE, rows |-> <<>>, summary |-> FALSE, lines |-> NoSummary]

(* ------------------------- frdss.py: dosetable -------------------------- *)
FrIlluminatedVolumeWrong == <<1, 4>>
FrIlluminatedVolume == Fl(<<1, 8>>)
FrAttenuator1 == Fl(<<1, 10>>)
FrAttenuator2 == Fl(<<1, 100>>)

FrDoseRow(sampledose, doserate, snr, volumelimit) ==
    LET flowrate0 == PyDiv(PyMul(doserate, FrIlluminatedVolume), sampledose)
        time0 == PyDiv(PyMul(snr, flowrate0), PyMul(doserate, FrIlluminatedVolume))
        volume0 == PyMul(time0, flowrate0)
        flowrate1 == PyDiv(PyMul(PyMul(doserate, FrAttenuator1), FrIlluminatedVolume),
                           sampledose)
        time1 == PyDiv(PyMul(snr, flowrate1),
                       PyMul(PyMul(doserate, FrAttenuator1), FrIlluminatedVolume))
        volume1 == PyMul(time1, flowrate1)
        flowrate2 == PyDiv(PyMul(PyMul(doserate, FrAttenuator2), FrIlluminatedVolume),
                           sampledose)
        time2 == PyDiv(PyMul(snr, flowrate2),
                       PyMul(PyMul(doserate, FrAttenuator2), FrIlluminatedVolume))
        volume2 == PyMul(time2, flowrate2)
    IN  IF QGreater(volume0, volumelimit)
        THEN IF QGreater(volume1, volumelimit)
             THEN Result(TRUE, flowrate2, time2, volume2, 2)
             ELSE Result(TRUE, flowrate1, time1, volume1, 1)
        ELSE Result(TRUE, flowrate0, time0, volume0, 0)

(* ------------------------------ state ---------------------------------- *)
InitProgram ==
    /\ \/ /\ prog = "flowss"
          /\ filename = "none"
          /\ argv \in ParamSets
          /\ file = <<>>
       \/ /\ prog = "flowss"
          /\ filename = "params.txt"
          /\ argv = OtherArgs
          /\ file \in {FileVariant(p, kind) : p \in ParamSets, kind \in FileKinds}
       \/ /\ prog = "frdss"
          /\ filename = "none"
          /\ argv \in FrParamSets
          /\ file = <<>>
    /\ pc = "args"
    /\ err = "none"
    /\ A = <<>> /\ B = <<>> /\ C = <<>> /\ D = <<>> /\ E = <<>> /\ F = <<>>
    /\ illuminatedvolume = <<0, 1>>
    /\ idx = 0
    /\ flowratevalues = <<>> /\ timevalues = <<>>
    /\ volumevalues = <<>> /\ attenuation = <<>>
    /\ data = <<>>
    /\ dosetxt = NoFile
    /\ stdout = NoOutput

Init == arith = "float" /\ InitProgram

InitExact == arith = "exact" /\ InitProgram

inputs == <<arith, prog, argv, filename, file>>
arrays == <<A, B, C, D, E, F>>
lists == <<flowratevalues, timevalues, volumevalues, attenuation>>
outputs == <<data, dosetxt, stdout>>

(* an uncaught exception: traceback, nonzero exit *)
Raise(e) == pc' = "failed" /\ err' = e

(* flowss.py: ARGS = CLI.parse_args(); A..F = np.array(ARGS...) *)
ParseArgs ==
    /\ pc = "args" /\ prog = "flowss"
    /\ A' = FloatArray(argv.sampledoses)
    /\ B' = FloatArray(argv.doserate)
    /\ C' = FloatArray(argv.snr)
    /\ D' = FloatArray(argv.volumelimit)
    /\ E' = FloatArray(argv.beamdimensions)
    /\ F' = FloatArray(argv.attenuators)
    /\ pc' = "file"
    /\ UNCHANGED <<inputs, err, illuminatedvolume, idx, lists, outputs>>

(* flowss.py: if ARGS.filename is not None: read every line, then take
   content[0] .. content[5] *)
LoadFile ==
    /\ pc = "file"
    /\ IF filename = "none"
       THEN pc' = "call" /\ UNCHANGED <<err, arrays>>
       ELSE IF ~AllNumeric(file)
       THEN Raise("ValueError") /\ UNCHANGED arrays
       ELSE LET content == Content(file)
                Item(k, old) == IF k <= Len(content) THEN content[k] ELSE old
            IN  /\ A' = Item(1, A) /\ B' = Item(2, B) /\ C' = Item(3, C)
                /\ D' = Item(4, D) /\ E' = Item(5, E) /\ F' = Item(6, F)
                /\ IF Len(content) < 6
                   THEN Raise("IndexError")
                   ELSE pc' = "call" /\ UNCHANGED err
    /\ UNCHANGED <<inputs, illuminatedvolume, idx, lists, outputs>>

(* flowss.py: dosetable(A, B, C, D, E, F) up to the loop *)
Enter ==
    /\ pc = "call" /\ prog = "flowss"
    /\ flowratevalues' = <<>> /\ timevalues' = <<>>
    /\ volumevalues' = <<>> /\ attenuation' = <<>>
    /\ IF Len(E) < 3
       THEN Raise("IndexError") /\ UNCHANGED <<illuminatedvolume, idx>>
       ELSE /\ illuminatedvolume' = IlluminatedVolume(E)
            /\ idx' = 1
            /\ pc' = "loop"
            /\ UNCHANGED err
    /\ UNCHANGED <<inputs, arrays, outputs>>

(* flowss.py: one iteration of "for sampledose in doselist" *)
Iterate ==
    /\ pc = "loop" /\ prog = "flowss" /\ idx <= Len(A)
    /\ IF Len(B) > 1 \/ Len(C) > 1 \/ Len(D) > 1
       THEN Raise("ValueError") /\ UNCHANGED <<idx, lists>>
       ELSE LET row == DoseRow(A[idx], B[1], C[1], D[1], illuminatedvolume, F)
            IN  IF ~row.ok
                THEN Raise("IndexError") /\ UNCHANGED <<idx, lists>>
                ELSE /\ flowratevalues' = Append(flowratevalues, row.flowrate)
                     /\ timevalues' = Append(timevalues, row.time)
                     /\ volumevalues' = Append(volumevalues, row.volume)
                     /\ attenuation' = Append(attenuation, row.attenuator)
                     /\ idx' = idx + 1
                     /\ UNCHANGED <<pc, err>>
    /\ UNCHANGED <<inputs, arrays, illuminatedvolume, outputs>>

(* flowss.py: table, dose.txt and summary after the loop *)
Report ==
    /\ pc = "loop" /\ prog = "flowss" /\ idx > Len(A)
    /\ data' = BuildData(A, flowratevalues, volumevalues, timevalues, attenuation)
    /\ dosetxt' = [written |-> TRUE, rows |-> SaveTxt(data')]
    /\ stdout' = [table |-> TRUE, rows |-> data', summary |-> TRUE,
                  lines |-> Summary(C[1], D[1], volumevalues, timevalues)]
    /\ pc' = "done"
    /\ UNCHANGED <<inputs, arrays, err, illuminatedvolume, idx, lists>>

(* frdss.py: ARGS = CLI.parse_args(); A..D = np.array(ARGS...) *)
FrParseArgs ==
    /\ pc = "args" /\ prog = "frdss"
    /\ A' = FloatArray(argv.sampledoses)
    /\ B' = FloatArray(argv.doserate)
    /\ C' = FloatArray(argv.snr)
    /\ D' = FloatArray(argv.volumelimit)
    /\ pc' = "call"
    /\ UNCHANGED <<inputs, err, E, F, illuminatedvolume, idx, lists, outputs>>

(* frdss.py: dosetable(A, B, C, D) up to the loop *)
FrEnter ==
    /\ pc = "call" /\ prog = "frdss"
    /\ flowratevalues' = <<>> /\ timevalues' = <<>>
    /\ volumevalues' = <<>> /\ attenuation' = <<>>
    /\ idx' = 1
    /\ pc' = "loop"
    /\ UNCHANGED <<inputs, arrays, err, illuminatedvolume, outputs>>

(* frdss.py: one iteration of "for sampledose in doselist" *)
FrIterate ==
    /\ pc = "loop" /\ prog = "frdss" /\ idx <= Len(A)
    /\ IF Len(B) > 1 \/ Len(C) > 1 \/ Len(D) > 1
       THEN Raise("ValueError") /\ UNCHANGED <<idx, lists>>
       ELSE LET row == FrDoseRow(A[idx], B[1], C[1], D[1])
            IN  /\ flowratevalues' = Append(flowratevalues, row.flowrate)
                /\ timevalues' = Append(timevalues, row.time)
                /\ volumevalues' = Append(volumevalues, row.volume)
                /\ attenuation' = Append(attenuation, row.attenuator)
                /\ idx' = idx + 1
                /\ UNCHANGED <<pc, err>>
    /\ UNCHANGED <<inputs, arrays, illuminatedvolume, outputs>>

(* frdss.py: table, dose.txt and summary after the loop *)
FrReport ==
    /\ pc = "loop" /\ prog = "frdss" /\ idx > Len(A)
    /\ data' = BuildData(A, flowratevalues, volumevalues, timevalues, attenuation)
    /\ dosetxt' = [written |-> TRUE, rows |-> SaveTxt(data')]
    /\ stdout' = [table |-> TRUE, rows |-> data', summary |-> TRUE,
                  lines |-> Summary(C[1], D[1], volumevalues, timevalues)]
    /\ pc' = "done"
    /\ UNCHANGED <<inputs, arrays, err, illuminatedvolume, idx, lists>>

Next ==
    \/ ParseArgs
    \/ LoadFile
    \/ Enter
    \/ Iterate
    \/ Report
    \/ FrParseArgs
    \/ FrEnter
    \/ FrIterate
    \/ FrReport

Spec == Init /\ [][Next]_vars

SpecExact == InitExact /\ [][Next]_vars

(* ===================== the specification's formulas ===================== *)
(* the per-tier quantities as the specification writes them, for the
   parameters of the current run *)
Scalars == Len(B) = 1 /\ Len(C) = 1 /\ Len(D) = 1

TierRate(k) ==
    IF k = 0 THEN B[1] ELSE IF k = 1 THEN PyMul(B[1], F[1]) ELSE PyMul(B[1], F[2])
TierFlowRate(k, d) == PyDiv(PyMul(TierRate(k), illuminatedvolume), d)
TierExposureTime(k, d) ==
    PyDiv(PyMul(C[1], TierFlowRate(k, d)), PyMul(TierRate(k), illuminatedvolume))
TierSampleVolume(k, d) == PyMul(TierExposureTime(k, d), TierFlowRate(k, d))
Fits(k, d) == QLeq(TierSampleVolume(k, d), D[1])

FittingTiers(d) == {k \in 0..2 : Fits(k, d)}
SmallestFittingTier(d) ==
    IF FittingTiers(d) = {} THEN 2
    ELSE CHOOSE k \in FittingTiers(d) : \A j \in FittingTiers(d) : k <= j

Rows == 1..Len(attenuation)
Flowss == prog = "flowss"
Finished == pc = "done"

(* C1: every computed row carries the smallest tier in {0,1,2} whose
   tier volume does not exceed volumelimit, or tier 2 when none fits, and
   the volume of that tier; a row of tier 0 or 1 is within the limit. *)
C1_SmallestFittingTier ==
    (Flowss /\ Len(F) >= 2) =>
        \A i \in Rows :
            /\ attenuation[i] = SmallestFittingTier(A[i])
            /\ volumevalues[i] = TierSampleVolume(attenuation[i], A[i])
            /\ attenuation[i] < 2 => QLeq(volumevalues[i], D[1])

(* a finished run that emitted a tier-2 row above the limit next to a row
   that fits *)
C1_Witness ==
    /\ Flowss /\ Finished /\ Len(F) >= 2
    /\ \E i \in Rows : attenuation[i] = 2 /\ QGreater(volumevalues[i], D[1])
    /\ \E i \in Rows : attenuation[i] = 1

(* C2: in every row the volume is the product of the time and the flow rate
   of the same row, and all three are the values of the row's tier. *)
C2_VolumeIdentity ==
    Flowss =>
        /\ \A i \in Rows :
              /\ volumevalues[i] = PyMul(timevalues[i], flowratevalues[i])
              /\ flowratevalues[i] = TierFlowRate(attenuation[i], A[i])
              /\ timevalues[i] = TierExposureTime(attenuation[i], A[i])
        /\ \A i \in 1..Len(data) : data[i][3] = PyMul(data[i][4], data[i][2])

C2_Witness ==
    /\ Flowss /\ Finished /\ Len(data) = 2
    /\ data[1][5] = 2 /\ data[2][5] = 0
    /\ data[1][4] # data[1][2]

(* C3: for positive parameters the tier is non-decreasing in the dose rate
   and non-increasing in the target dose. *)
TierOf(d, rate) == DoseRow(d, rate, C[1], D[1], illuminatedvolume, F).attenuator

Positive(q) == q[1] > 0

C3_TierMonotone ==
    (Flowss /\ Finished /\ Len(F) >= 2) =>
        \A i \in Rows :
            Positive(A[i]) =>
                /\ \A r \in DoseRateTokens :
                      QLeq(B[1], Fl(r)) => attenuation[i] <= TierOf(A[i], Fl(r))
                /\ \A d \in DoseTokens :
                      (Positive(d) /\ QLeq(A[i], Fl(d))) =>
                          TierOf(Fl(d), B[1]) <= attenuation[i]

(* C4: one row per target dose, in input order, in the lists, in the table
   and in dose.txt. *)
ExpectedRow(d) ==
    LET k == SmallestFittingTier(d)
    IN  <<d, TierFlowRate(k, d), TierSampleVolume(k, d), TierExposureTime(k, d), k>>

C4_OneRowPerDoseInOrder ==
    Flowss =>
        /\ (pc \in {"loop", "done"}) =>
              /\ Len(flowratevalues) = idx - 1 /\ Len(timevalues) = idx - 1
              /\ Len(volumevalues) = idx - 1 /\ Len(attenuation) = idx - 1
        /\ (Finished /\ Len(F) >= 2) =>
              /\ Len(data) = Len(A)
              /\ stdout.rows = data
              /\ Len(dosetxt.rows) = Len(A)
              /\ \A i \in 1..Len(A) :
                    /\ data[i] = ExpectedRow(A[i])
                    /\ dosetxt.rows[i] =
                          <<Fmt3(A[i]), Fmt3(data[i][2]), Fmt3(data[i][3]),
                            Fmt3(data[i][4]), 1000 * data[i][5]>>

C4_Witness ==
    /\ Flowss /\ Finished /\ Len(F) >= 2 /\ Len(A) = 2
    /\ A[1] # A[2]
    /\ data[1][5] # data[2][5]
    /\ dosetxt.written

(* C5: the flow rate of a row is computed from the base dose rate and the
   single factor of the row's tier. *)
C5_NotCompounded ==
    Flowss =>
        \A i \in Rows :
            /\ attenuation[i] = 0 =>
                  flowratevalues[i] = PyDiv(PyMul(B[1], illuminatedvolume), A[i])
            /\ attenuation[i] = 1 =>
                  flowratevalues[i] =
                      PyDiv(PyMul(PyMul(B[1], F[1]), illuminatedvolume), A[i])
            /\ attenuation[i] = 2 =>
                  flowratevalues[i] =
                      PyDiv(PyMul(PyMul(B[1], F[2]), illuminatedvolume), A[i])

C5_Witness ==
    /\ Flowss /\ Finished
    /\ \E i \in Rows : attenuation[i] = 2 /\ F[1] # <<1, 1>>

(* C6: in exact arithmetic the exposure time of every row is snr / d. *)
C6_ExposureTimeIsSnrOverDose ==
    (Flowss /\ arith = "exact") =>
        \A i \in Rows : timevalues[i] = QDiv(C[1], A[i])

C6_Witness ==
    /\ Flowss /\ Finished /\ arith = "exact"
    /\ illuminatedvolume # <<1, 1>>
    /\ \E i \in Rows : attenuation[i] = 2
    /\ \E i \in Rows : attenuation[i] = 0

(* C7: a malformed parameter file stops the run before any row is computed
   and before dose.txt is written. *)
WellFormedFile(lines) ==
    /\ Len(lines) = 6
    /\ AllNumeric(lines)
    /\ Len(lines[1]) >= 1
    /\ Len(lines[2]) = 1 /\ Len(lines[3]) = 1 /\ Len(lines[4]) = 1
    /\ Len(lines[5]) = 3
    /\ Len(lines[6]) = 2

C7_MalformedFileAborts ==
    (Flowss /\ filename # "none" /\ ~WellFormedFile(file)) =>
        /\ pc # "done"
        /\ flowratevalues = <<>>
        /\ ~dosetxt.written

(* C8: the summary totals are the sums of the volumes and of the times,
   summed first and then cut to an integer once. *)
RECURSIVE Total(_, _)
Total(values, n) == IF n = 0 THEN <<0, 1>> ELSE PyAdd(Total(values, n - 1), values[n])

Floor(q) == q[1] \div q[2]
TowardZero(q) == IF q[1] < 0 THEN -Floor(QNeg(q)) ELSE Floor(q)

(* as claimed: the floor of the sums *)
C8_TotalsAreFloors ==
    Finished =>
        /\ stdout.lines.totalvolume = Floor(Total(volumevalues, Len(volumevalues)))
        /\ stdout.lines.totaltime = Floor(Total(timevalues, Len(timevalues)))

(* as amended: the sums cut toward zero, which is the floor for sums >= 0 *)
C8_TotalsAreTruncations ==
    Finished =>
        /\ stdout.summary
        /\ stdout.lines.totalvolume = TowardZero(Total(volumevalues, Len(volumevalues)))
        /\ stdout.lines.totaltime = TowardZero(Total(timevalues, Len(timevalues)))
        /\ ~Positive(QNeg(Total(timevalues, Len(timevalues)))) =>
              stdout.lines.totaltime = Floor(Total(timevalues, Len(timevalues)))

C8_Witness ==
    /\ Finished /\ Len(timevalues) = 2
    /\ Total(timevalues, 2)[1] < 0 /\ Total(timevalues, 2)[2] # 1
    /\ stdout.lines.totaltime # Floor(Total(timevalues, 2))

(* C9: frdss.dosetable gives the rows flowss.dosetable gives for the same
   four arguments, beam dimensions of product 0.125 and attenuators
   [0.1, 0.01]. *)
EighthBeams ==
    {FloatArray(b) : b \in {c \in BeamChoices :
                               IlluminatedVolume(FloatArray(c)) = Fl(<<1, 8>>)}}

C9_SameAsFlowss ==
    (prog = "frdss") =>
        \A i \in Rows : \A b \in EighthBeams :
            LET row == DoseRow(A[i], B[1], C[1], D[1], IlluminatedVolume(b),
                               FloatArray(<< <<1, 10>>, <<1, 100>> >>))
            IN  /\ flowratevalues[i] = row.flowrate
                /\ timevalues[i] = row.time
                /\ volumevalues[i] = row.volume
                /\ attenuation[i] = row.attenuator

C9_Witness ==
    /\ prog = "frdss" /\ Finished /\ EighthBeams # {}
    /\ \E i \in Rows : attenuation[i] = 1
    /\ \E i \in Rows : attenuation[i] = 0

(* C10: with a single attenuator factor the run fails exactly when some
   target exceeds the limit at tier 0 and at tier 1, and a failed run
   leaves no dose.txt, no table and no summary. *)
OneAttenuatorRun ==
    /\ Flowss /\ pc \in {"done", "failed"}
    /\ Scalars /\ Len(E) >= 3 /\ Len(F) = 1

ReachesTier2(d) == ~Fits(0, d) /\ ~Fits(1, d)

====
